---- MODULE Spec2Model ----
(***************************************************************************)
(* Model of CTD.py ("Connect The Dots"): the batch script that reads the   *)
(* experimental data and the network, selects and validates the seed list  *)
(* S, ranks the nodes from every seed (sequentially, by a worker pool, or  *)
(* from a rank cache), builds the bitstrings, scores them, selects the     *)
(* winning row and writes the result record and the rank cache record.     *)
(*                                                                         *)
(* A node identifier is a record [t, v]: t is its Python type ("str" or    *)
(* "int"), v stands for its text.  A Python dict is a sequence of [k, v]   *)
(* entries in insertion order with distinct keys.  A file name is a        *)
(* sequence of tokens ("out", ".", "json", ...).                           *)
(***************************************************************************)
EXTENDS Integers, Sequences, FiniteSets, TLC

\* ------------------------------------------------------------------ bounds
NumNodes == 3
MaxSeeds == 2
MaxPatients == 2
MaxKmx == 1
MaxRuns == 2
MaxRows == 3

\* ------------------------------------------------------------ identifiers
NodeVals == 1..NumNodes
\* a label that is not a column of the adjacency matrix
Unknown == NumNodes + 1
IdTypes == {"str", "int"}
Id(t, v) == [t |-> t, v |-> v]
\* str(node), and the key json.dump writes for a str or int dict key
Str(id) == [t |-> "str", v |-> id.v]

\* ------------------------------------------------------------ sequences
RECURSIVE SumSeq(_)
SumSeq(s) == IF s = <<>> THEN 0 ELSE s[1] + SumSeq(Tail(s))

RECURSIVE Concat(_)
Concat(ss) == IF ss = <<>> THEN <<>> ELSE ss[1] \o Concat(Tail(ss))

Range(s) == {s[j] : j \in DOMAIN s}

SeqsUpTo(A, lo, hi) == UNION {[1..n -> A] : n \in lo..hi}

DistinctSeqs(A, n) == {s \in [1..n -> A] : \A a, b \in 1..n : s[a] = s[b] => a = b}

Min(a, b) == IF a < b THEN a ELSE b

\* ------------------------------------------------------------ Python dict
DictKeys(d) == {d[j].k : j \in DOMAIN d}
DictSet(d, k, v) ==
    IF k \in DictKeys(d)
    THEN [j \in DOMAIN d |-> IF d[j].k = k THEN [k |-> k, v |-> v] ELSE d[j]]
    ELSE Append(d, [k |-> k, v |-> v])

\* ------------------------------------------------------------ json
\* json.dump of a dict: every key becomes its string, values are kept
JsonDump(d) == [j \in DOMAIN d |-> [k |-> Str(d[j].k), v |-> d[j].v]]
\* json.load of an object: members in order, a repeated key keeps its last value
RECURSIVE JsonLoadFrom(_, _)
JsonLoadFrom(text, d) ==
    IF text = <<>> THEN d
    ELSE JsonLoadFrom(Tail(text), DictSet(d, text[1].k, text[1].v))
JsonLoad(text) == JsonLoadFrom(text, <<>>)

\* ------------------------------------------------------------ file names
\* str.replace on a name: every occurrence of pat, left to right
RECURSIVE Replace(_, _, _)
Replace(name, pat, rep) ==
    IF Len(name) < Len(pat) THEN name
    ELSE IF SubSeq(name, 1, Len(pat)) = pat
         THEN rep \o Replace(SubSeq(name, Len(pat) + 1, Len(name)), pat, rep)
         ELSE <<name[1]>> \o Replace(Tail(name), pat, rep)

\* ------------------------------------------------------------ NodeRanker
RECURSIVE FloorLog2(_)
FloorLog2(n) == IF n <= 1 THEN 0 ELSE 1 + FloorLog2(n \div 2)

RECURSIVE CeilLog2(_)
CeilLog2(n) == IF n <= 1 THEN 0 ELSE 1 + CeilLog2((n + 1) \div 2)

\* membershipBit = 1 iff node in S
Bit(node, S) == IF node \in Range(S) THEN 1 ELSE 0

\* The biased walk: from cur, advance to the highest-weight unvisited
\* neighbour (first column on equal weights); stop when there is none or
\* when the consecutive visits outside S exceed the miss budget.
RECURSIVE Walk(_, _, _, _, _, _, _)
Walk(cur, list, misses, t, A, S, budget) ==
    LET visited == {list[j][1].v : j \in DOMAIN list}
        cand == {x \in DOMAIN A : x \notin visited /\ A[cur][x] > 0}
    IN  IF cand = {} THEN list
        ELSE LET nxt == CHOOSE x \in cand : \A y \in cand :
                            \/ A[cur][x] > A[cur][y]
                            \/ A[cur][x] = A[cur][y] /\ x <= y
                 b == Bit(Id(t, nxt), S)
                 m == IF b = 1 THEN 0 ELSE misses + 1
                 grown == Append(list, <<Id(t, nxt), b>>)
             IN  IF m > budget THEN grown
                 ELSE Walk(nxt, grown, m, t, A, S, budget)

\* graph.single_node_get_node_ranks(n, G, adj_mat, S, num_misses = log2(len(G))):
\* the rank list of n paired with n itself.  For whole counts m,
\* m > log2(len(G)) iff m > FloorLog2(len(G)).
single_node_get_node_ranks(n, Gm, A, S) ==
    <<Walk(n.v, <<<<n, Bit(n, S)>>>>, 0, n.t, A, S, FloorLog2(Cardinality(DOMAIN Gm))), n>>

\* ------------------------------------------------------------ BitstringBuilder
\* the prefixes k = 1..len of one rank list
Prefixes(rl) == [k \in 1..Len(rl) |-> SubSeq(rl, 1, k)]

\* mle.get_pt_bs_by_k(S, ranks): for each rank list of the rank map, in its
\* order, the family of prefixes; one entry per (seed, k)
RECURSIVE get_pt_bs_by_k(_, _)
get_pt_bs_by_k(S, rk) ==
    IF rk = <<>> THEN <<>>
    ELSE Prefixes(rk[1].v) \o get_pt_bs_by_k(S, Tail(rk))

\* ------------------------------------------------------------ EncodingScorer
RECURSIVE Binomial(_, _)
Binomial(n, k) ==
    IF k = 0 \/ k = n THEN 1
    ELSE IF k > n THEN 0
    ELSE Binomial(n - 1, k - 1) + Binomial(n - 1, k)

BitsOf(entry) == [j \in DOMAIN entry |-> entry[j][2]]

\* bits to justify the membership pattern: a member costs its evidence
\* (0 strong, 1 weak), a non-member one bit
LData(entry, pv) ==
    SumSeq([j \in DOMAIN entry |->
              IF entry[j][2] = 1
              THEN (IF entry[j][1].v \in DOMAIN pv THEN pv[entry[j][1].v] ELSE 1)
              ELSE 1])

\* one row of the result table: d.score = L_null - (L_model + L_data)
ScoreRow(entry, n, pv) ==
    LET k == Len(entry)
        LNull == k * CeilLog2(n)
        LModel == CeilLog2(Binomial(n, k))
    IN  [optimalBS |-> BitsOf(entry), subsetSize |-> k,
         dscore |-> LNull - (LModel + LData(entry, pv))]

\* mle.get_encoding_length(bs, G, pvals, pt_id): one row per entry of bs
get_encoding_length(bs, Gm, pv) ==
    [j \in DOMAIN bs |-> ScoreRow(bs[j], Cardinality(DOMAIN Gm), pv)]

\* ------------------------------------------------------------ SeedSelector
\* Counter(S_set): the distinct nodes in first-occurrence order
RECURSIVE Occurrences(_, _)
Occurrences(S_set, seen) ==
    IF S_set = <<>> THEN seen
    ELSE Occurrences(Tail(S_set),
                     IF S_set[1] \in Range(seen) THEN seen ELSE Append(seen, S_set[1]))

Count(S_set, node) == Cardinality({j \in DOMAIN S_set : S_set[j] = node})

\* lines 97-107: tops[pt] is the first kmx labels of the rows sorted by the
\* patient's column; a node is kept when it occurs for at least
\* len(target_patients) * present_in_perc_for_s patients (perc in percent)
SeedsFromPatients(tops, perc) ==
    LET S_set == Concat(tops)
        KeptNode(node) == Count(S_set, node) * 100 >= Len(tops) * perc
    IN  SelectSeq(Occurrences(S_set, <<>>), KeptNode)

\* lines 117-120: the loop exits at the first node that is no key of G
SeedsInGraph(S, Gm) == \A j \in DOMAIN S : S[j] \in DOMAIN Gm

\* ------------------------------------------------------------ ranking
\* line 135: ranks[node], _ = single_node_get_node_ranks(n=node, ...)
RankOne(rk, node, Gm, A, S) ==
    DictSet(rk, node, single_node_get_node_ranks(node, Gm, A, S)[1])

\* lines 134-137, the whole sequential loop over nodes
RECURSIVE SequentialRanks(_, _, _, _, _)
SequentialRanks(rk, nodes, Gm, A, S) ==
    IF nodes = <<>> THEN rk
    ELSE SequentialRanks(RankOne(rk, nodes[1], Gm, A, S), Tail(nodes), Gm, A, S)

\* lines 146-147: for tup in ranks_collection: ranks[tup[1]] = tup[0]
RECURSIVE GatherFrom(_, _)
GatherFrom(rk, collection) ==
    IF collection = <<>> THEN rk
    ELSE GatherFrom(DictSet(rk, collection[1][2], collection[1][1]), Tail(collection))

\* a gather loop that stops one tuple short
GatherAllButLast(collection) ==
    GatherFrom(<<>>, SubSeq(collection, 1, Len(collection) - 1))

Gather(collection) == GatherFrom(<<>>, collection)

\* ------------------------------------------------------------ ResultSelector
MaxOf(vals) == CHOOSE m \in vals : \A x \in vals : x <= m

Positions(table) == [j \in 1..Len(table) |-> j]

\* line 173-174: the rows whose d.score is the table maximum
HighestDscorePaths(table) ==
    LET mx == MaxOf({table[j].dscore : j \in DOMAIN table})
        IsMax(j) == table[j].dscore = mx
    IN  SelectSeq(Positions(table), IsMax)

\* a tie-break on the number of 1-bits instead of the string length
MostOnes(table, rows) ==
    LET OnesIn(r) == Cardinality({j \in DOMAIN table[r].optimalBS : table[r].optimalBS[j] = 1})
        mx == MaxOf({OnesIn(rows[j]) : j \in DOMAIN rows})
        HasMost(r) == OnesIn(r) = mx
    IN  SelectSeq(rows, HasMost)

\* lines 178-180: of these, the rows with the longest optimalBS
LongestBS(table, rows) ==
    LET mx == MaxOf({Len(table[rows[j]].optimalBS) : j \in DOMAIN rows})
        IsLongest(r) == Len(table[r].optimalBS) = mx
    IN  SelectSeq(rows, IsLongest)

\* lines 183-184: of these, the rows with the largest subsetSize
LargestSubset(table, rows) ==
    LET mx == MaxOf({table[rows[j]].subsetSize : j \in DOMAIN rows})
        IsLargest(r) == table[r].subsetSize = mx
    IN  SelectSeq(rows, IsLargest)

\* line 185: ind_F.index.values[0], the label of the first row left
IndF(table) == LargestSubset(table, LongestBS(table, HighestDscorePaths(table)))[1]

\* the option ignored: bit-0 nodes always kept
KeepNodesAll(include) == {0, 1}

\* lines 198-200
KeepNodes(include) == IF include THEN {0, 1} ELSE {1}

\* line 202: Fs = [d[0] for d in pt_bs_by_k[ind_F] if d[1] in keep_nodes]
FsOf(entry, keep_nodes) ==
    LET Kept(d) == d[2] \in keep_nodes
        kept == SelectSeq(entry, Kept)
    IN  [j \in DOMAIN kept |-> kept[j][1]]

\* ------------------------------------------------------------ output names
JsonExt == <<".", "json">>
RanksExt == <<"_ranks", ".", "json">>

\* lines 218-224
Outfname(output_name, input_name) ==
    IF output_name = <<>> THEN Replace(input_name, <<"csv">>, <<"json">>)
    ELSE output_name

\* line 226: outrname = outfname.replace('.json', '_ranks.json')
Outrname(name) == Replace(name, JsonExt, RanksExt)

\* ------------------------------------------------------------ inputs
\* adjacency matrices: symmetric, zero diagonal, an edge a-b weighs a + b
AdjOf(E) ==
    [a \in NodeVals |-> [b \in NodeVals |->
        IF <<a, b>> \in E \/ <<b, a>> \in E THEN a + b ELSE 0]]
PathEdges(m) == {<<a, a + 1>> : a \in 1..m}
AllPairs == {<<a, b>> \in NodeVals \X NodeVals : a < b}
AdjChoices == {AdjOf(PathEdges(m)) : m \in 0..(NumNodes - 1)} \cup {AdjOf(AllPairs)}

\* present_in_perc_for_s, in percent
PercChoices == {50, 100}
\* num_processes: 1 takes the loop, any other size the pool
ProcessChoices == {1, 2}
\* per-node evidence from the p-values: 0 strong, 1 weak
Evidence == {[v \in NodeVals |-> IF v <= c THEN 0 ELSE 1] : c \in {0, 1}}
NoEvidence == [v \in NodeVals |-> 0]

\* the text of a rank cache file found at --ranks
CacheList(v) == << <<Id("str", v), 1>>, <<Id("str", (v % NumNodes) + 1), 0>> >>
CacheChoices == {[j \in 1..n |-> [k |-> Id("str", j), v |-> CacheList(j)]] : n \in 0..NumNodes}

OutputNames == {<<>>, <<"out", ".", "json">>, <<"out">>}
InputNames(stem) == {<<stem, ".", "csv">>, <<stem, ".", "tsv">>}
GraphName == <<"graph", ".", "csv">>

\* ------------------------------------------------------------ state
VARIABLES
    pc,                 \* the statement the script is at
    run,                \* 1 for the first invocation, 2 for the re-run on its cache
    experimental,       \* os.path.exists(argv.experimental)
    idxType,            \* type of the row labels of experimental_df
    target_patients,    \* number of patient columns
    adj_matrix,         \* os.path.exists(argv.adj_matrix)
    G,                  \* node -> 0.0
    adj,                \* adj_df
    S_perturbed_nodes,
    cache,              \* the file at argv.ranks: [exists, text]
    ranks,
    num_processes,
    node_i,             \* position of the sequential loop in S_perturbed_nodes
    ranks_collection,   \* the pool's result slots, in task order
    pt_bs_by_k,
    pvals,              \* per-node evidence from the patients' p-values
    res,
    ind_F,
    include_not_in_s,
    out_dict,
    outfname,
    outrname,
    fs,                 \* files on disk: name -> content
    written,            \* the writes of this run, in order
    calls,              \* NodeRanker calls made in this run
    anyFailed,          \* a NodeRanker call of this run raised
    started,            \* downstream stages entered in this run
    prev                \* what the previous run passed on and wrote

vars == <<pc, run, experimental, idxType, target_patients, adj_matrix, G, adj,
          S_perturbed_nodes, cache, ranks, num_processes, node_i,
          ranks_collection, pt_bs_by_k, pvals, res, ind_F, include_not_in_s, out_dict,
          outfname, outrname, fs, written, calls, anyFailed, started, prev>>

inputVars == <<experimental, idxType, target_patients, adj_matrix, G, adj,
               S_perturbed_nodes>>
rankVars == <<cache, ranks, num_processes, node_i, ranks_collection>>
stageVars == <<pt_bs_by_k, pvals, res, ind_F, include_not_in_s, out_dict>>
outVars == <<outfname, outrname, fs, written>>
ghostVars == <<calls, anyFailed, started>>

NoResult ==
    [S_perturbed_nodes |-> <<>>, F_most_connected_nodes |-> <<>>, p_value_log2 |-> 0,
     kmcm_log2 |-> 0, optimal_bitstring |-> <<>>, number_of_nodes_in_G |-> 0]
NoCache == [exists |-> FALSE, text |-> <<>>]
NoFiles == [n \in {} |-> 0]
ZeroAdj == AdjOf({})

FileOf(kind, text, result) == [kind |-> kind, ranks |-> text, result |-> result]
\* open(name, 'w') and dump: the file is created or replaced
WriteFile(files, name, content) ==
    [n \in DOMAIN files \cup {name} |-> IF n = name THEN content ELSE files[n]]

NoPrev == [ranks |-> <<>>, outfname |-> <<>>, outrname |-> <<>>, pt_bs_by_k |-> <<>>,
           res |-> <<>>, ind_F |-> 0, out_dict |-> NoResult]

Init ==
    /\ pc = "start"
    /\ run = 1
    /\ experimental = FALSE
    /\ idxType = "str"
    /\ target_patients = 0
    /\ adj_matrix = FALSE
    /\ G = [n \in {} |-> 0]
    /\ adj = ZeroAdj
    /\ S_perturbed_nodes = <<>>
    /\ cache = NoCache
    /\ ranks = <<>>
    /\ num_processes = 1
    /\ node_i = 1
    /\ ranks_collection = <<>>
    /\ pt_bs_by_k = <<>>
    /\ pvals = NoEvidence
    /\ res = <<>>
    /\ ind_F = 0
    /\ include_not_in_s = FALSE
    /\ out_dict = NoResult
    /\ outfname = <<>>
    /\ outrname = <<>>
    /\ fs = NoFiles
    /\ written = <<>>
    /\ calls = 0
    /\ anyFailed = FALSE
    /\ started = {}
    /\ prev = NoPrev

\* ------------------------------------------------------------ actions
\* lines 52-70: read the experimental and the control data
ReadExperimental ==
    /\ pc = "start"
    /\ \E ex \in BOOLEAN, control \in BOOLEAN, t \in IdTypes, n \in 0..MaxPatients :
          /\ ~ex => (control /\ t = "str" /\ n = 0)
          /\ IF ex /\ ~control
             THEN \* FileNotFoundError re-raised at line 58
                  /\ pc' = "crashed"
                  /\ UNCHANGED <<experimental, idxType, target_patients>>
             ELSE /\ pc' = "graph"
                  /\ experimental' = ex
                  /\ idxType' = t
                  /\ target_patients' = n
    /\ UNCHANGED <<run, adj_matrix, G, adj, S_perturbed_nodes, prev>>
    /\ UNCHANGED <<rankVars, stageVars, outVars, ghostVars>>

\* lines 73-90: read the adjacency matrix, or infer it (and write it when
\* out_graph_name is given); G gets one key per column
ReadGraph ==
    /\ pc = "graph"
    /\ \E given \in BOOLEAN, A \in AdjChoices, out_graph_name \in BOOLEAN :
          /\ given => ~out_graph_name
          /\ IF given
             THEN \* the columns of a CSV header are strings
                  /\ adj_matrix' = TRUE
                  /\ G' = [id \in {Id("str", v) : v \in NodeVals} |-> 0]
                  /\ adj' = A
                  /\ pc' = "seeds"
                  /\ UNCHANGED <<fs, written>>
             ELSE IF ~experimental
             THEN \* experimental_df is not defined at line 79
                  /\ A = ZeroAdj /\ ~out_graph_name
                  /\ pc' = "crashed"
                  /\ UNCHANGED <<adj_matrix, G, adj, fs, written>>
             ELSE /\ adj_matrix' = FALSE
                  /\ G' = [id \in {Id(idxType, v) : v \in NodeVals} |-> 0]
                  /\ adj' = A
                  /\ pc' = "seeds"
                  /\ IF out_graph_name
                     THEN /\ fs' = WriteFile(fs, GraphName, FileOf("adj", <<>>, NoResult))
                          /\ written' = Append(written, [name |-> GraphName, kind |-> "adj"])
                     ELSE UNCHANGED <<fs, written>>
    /\ UNCHANGED <<run, experimental, idxType, target_patients, S_perturbed_nodes, prev>>
    /\ UNCHANGED <<rankVars, stageVars, outfname, outrname, ghostVars>>

\* the row labels of experimental_df: the nodes of an inferred network, and
\* possibly a label the supplied network lacks
IndexIds ==
    {Id(idxType, v) : v \in (IF adj_matrix THEN 1..Unknown ELSE NodeVals)}

\* lines 93-114: the seed list, by one of the three modes
SelectSeeds ==
    /\ pc = "seeds"
    /\ \/ \E kmx \in 0..MaxKmx, perc \in PercChoices :
          \E tops \in [1..target_patients ->
                          DistinctSeqs(IndexIds, Min(kmx, Cardinality(IndexIds)))] :
             S_perturbed_nodes' = SeedsFromPatients(tops, perc)
       \/ \* a table: str() of its last column
          \E col \in SeqsUpTo(1..Unknown, 0, MaxSeeds) :
             S_perturbed_nodes' = [j \in DOMAIN col |-> Id("str", col[j])]
       \/ \* a literal list: split(',') of a non-empty string
          \E col \in SeqsUpTo(1..Unknown, 1, MaxSeeds) :
             S_perturbed_nodes' = [j \in DOMAIN col |-> Id("str", col[j])]
    /\ pc' = "validate"
    /\ UNCHANGED <<run, experimental, idxType, target_patients, adj_matrix, G, adj, prev>>
    /\ UNCHANGED <<rankVars, stageVars, outVars, ghostVars>>

\* lines 117-120: exit(1) at the first seed that is no key of G
Validate ==
    /\ pc = "validate"
    /\ pc' = IF SeedsInGraph(S_perturbed_nodes, G) THEN "ranks" ELSE "exited"
    /\ UNCHANGED <<run, inputVars, prev>>
    /\ UNCHANGED <<rankVars, stageVars, outVars, ghostVars>>

Pending == [st |-> "pending", tup |-> <<<<>>, Id("str", 0)>>]
Failed == [st |-> "failed", tup |-> <<<<>>, Id("str", 0)>>]
Done(tup) == [st |-> "done", tup |-> tup]

\* the file at argv.ranks: any cache on the first run, the rank cache record
\* of the previous run on a re-run
CacheFiles ==
    IF run = 1
    THEN {NoCache} \cup {[exists |-> TRUE, text |-> c] : c \in CacheChoices}
    ELSE {[exists |-> TRUE, text |-> fs[prev.outrname].ranks]}

\* a load that ranks afresh the seeds the cache lacks
LoadRanksMerged(file) ==
    LET loaded == JsonLoad(file.text)
        Missing(node) == node \notin DictKeys(loaded)
    IN  SequentialRanks(loaded, SelectSeq(S_perturbed_nodes, Missing), G, adj,
                        S_perturbed_nodes)

\* lines 126-130: json.load of the rank cache
LoadRanks(file) == JsonLoad(file.text)

\* lines 126-133, 139-142: load the rank cache, or start the loop or the pool
LoadOrCompute ==
    /\ pc = "ranks"
    /\ \E file \in CacheFiles, np \in ProcessChoices :
          /\ file.exists => np = 1
          /\ cache' = file
          /\ IF file.exists
             THEN /\ ranks' = LoadRanks(file)
                  /\ pc' = "bitstring"
                  /\ UNCHANGED <<num_processes, ranks_collection>>
             ELSE /\ ranks' = <<>>
                  /\ num_processes' = np
                  /\ pc' = IF np = 1 THEN "loop" ELSE "pool"
                  /\ ranks_collection' =
                        IF np = 1 THEN <<>>
                        ELSE [j \in DOMAIN S_perturbed_nodes |-> Pending]
    /\ node_i' = 1
    /\ UNCHANGED <<run, inputVars, prev, stageVars, outVars, ghostVars>>

\* lines 134-137: one iteration of the sequential loop (or its end); a
\* NodeRanker call that raises ends the script
LoopStep ==
    /\ pc = "loop"
    /\ IF node_i > Len(S_perturbed_nodes)
       THEN /\ pc' = "bitstring"
            /\ UNCHANGED <<ranks, node_i, calls, anyFailed>>
       ELSE \E ok \in BOOLEAN :
              /\ calls' = calls + 1
              /\ IF ok
                 THEN /\ ranks' = RankOne(ranks, S_perturbed_nodes[node_i], G, adj,
                                          S_perturbed_nodes)
                      /\ node_i' = node_i + 1
                      /\ UNCHANGED <<pc, anyFailed>>
                 ELSE /\ anyFailed' = TRUE
                      /\ pc' = "crashed"
                      /\ UNCHANGED <<ranks, node_i>>
    /\ UNCHANGED <<run, inputVars, prev, cache, num_processes, ranks_collection>>
    /\ UNCHANGED <<stageVars, outVars, started>>

\* a pool worker runs the NodeRanker call of task j to completion, in any order
WorkerRun(j) ==
    /\ pc = "pool"
    /\ ranks_collection[j].st = "pending"
    /\ \E ok \in BOOLEAN :
          /\ ranks_collection' =
                [ranks_collection EXCEPT ![j] =
                    IF ok
                    THEN Done(single_node_get_node_ranks(S_perturbed_nodes[j], G, adj,
                                                         S_perturbed_nodes))
                    ELSE Failed]
          /\ anyFailed' = (anyFailed \/ ~ok)
    /\ calls' = calls + 1
    /\ UNCHANGED <<pc, run, inputVars, prev, cache, ranks, num_processes, node_i>>
    /\ UNCHANGED <<stageVars, outVars, started>>

\* a gather that skips the failed tasks and goes on with the others
PoolGatherSkipFailed ==
    /\ pc = "pool"
    /\ \A j \in DOMAIN ranks_collection : ranks_collection[j].st # "pending"
    /\ ranks' = GatherFrom(<<>>,
                    LET IsDone(slot) == slot.st = "done"
                        done == SelectSeq(ranks_collection, IsDone)
                    IN  [j \in DOMAIN done |-> done[j].tup])
    /\ pc' = "bitstring"
    /\ UNCHANGED <<run, inputVars, prev, cache, num_processes, node_i, ranks_collection>>
    /\ UNCHANGED <<stageVars, outVars, ghostVars>>

\* lines 140-147: pool.map returns the results in task order once every task
\* has completed, or re-raises a worker's exception; then the gather loop
PoolGather ==
    /\ pc = "pool"
    /\ \A j \in DOMAIN ranks_collection : ranks_collection[j].st # "pending"
    /\ IF \E j \in DOMAIN ranks_collection : ranks_collection[j].st = "failed"
       THEN /\ pc' = "crashed"
            /\ UNCHANGED ranks
       ELSE /\ ranks' = Gather([j \in DOMAIN ranks_collection |-> ranks_collection[j].tup])
            /\ pc' = "bitstring"
    /\ UNCHANGED <<run, inputVars, prev, cache, num_processes, node_i, ranks_collection>>
    /\ UNCHANGED <<stageVars, outVars, ghostVars>>

\* line 151: the rank map goes to BitstringBuilder
BuildBitstrings ==
    /\ pc = "bitstring"
    /\ pt_bs_by_k' = get_pt_bs_by_k(S_perturbed_nodes, ranks)
    /\ started' = started \cup {"BitstringBuilder"}
    /\ pc' = "score"
    /\ UNCHANGED <<run, inputVars, prev, rankVars, pvals, res, ind_F, include_not_in_s,
                   out_dict>>
    /\ UNCHANGED <<outVars, calls, anyFailed>>

\* lines 157-172: the p-values of the patients (zeros without experimental
\* data) and the result table; columns[0] of a table without patient columns
\* raises IndexError
Score ==
    /\ pc = "score"
    /\ IF experimental /\ target_patients = 0
       THEN /\ pc' = "crashed"
            /\ UNCHANGED <<pvals, res, started>>
       ELSE /\ \E pv \in (IF ~experimental THEN {NoEvidence}
                           ELSE IF run = 1 THEN Evidence ELSE {pvals}) :
                  /\ pvals' = pv
                  /\ res' = get_encoding_length(pt_bs_by_k, G, pv)
            /\ started' = started \cup {"EncodingScorer"}
            /\ pc' = "select"
    /\ UNCHANGED <<run, inputVars, prev, rankVars, pt_bs_by_k, ind_F, include_not_in_s,
                   out_dict>>
    /\ UNCHANGED <<outVars, calls, anyFailed>>

\* lines 173-186: the winning row; values[0] of an empty selection raises
\* IndexError
Select ==
    /\ pc = "select"
    /\ IF res = <<>>
       THEN /\ pc' = "crashed"
            /\ UNCHANGED ind_F
       ELSE /\ ind_F' = IndF(res)
            /\ pc' = "report"
    /\ started' = started \cup {"ResultSelector"}
    /\ UNCHANGED <<run, inputVars, prev, rankVars, pt_bs_by_k, pvals, res,
                   include_not_in_s, out_dict>>
    /\ UNCHANGED <<outVars, calls, anyFailed>>

\* lines 193-216: p-value, F, kmcm probability and the result record;
\* p_value = 2 ** p_value_log2 and kmcm_probability = 2 ** kmcm_log2
OutDict(S, bs, table, ind, include, Gm) ==
    [S_perturbed_nodes |-> S,
     F_most_connected_nodes |-> FsOf(bs[ind], KeepNodes(include)),
     p_value_log2 |-> 0 - table[ind].dscore,
     kmcm_log2 |-> 0 - Len(table[ind].optimalBS),
     optimal_bitstring |-> table[ind].optimalBS,
     number_of_nodes_in_G |-> Cardinality(DOMAIN Gm)]

Report ==
    /\ pc = "report"
    /\ \E include \in (IF run = 1 THEN BOOLEAN ELSE {include_not_in_s}) :
          /\ include_not_in_s' = include
          /\ out_dict' = OutDict(S_perturbed_nodes, pt_bs_by_k, res, ind_F, include, G)
    /\ pc' = "write_result"
    /\ UNCHANGED <<run, inputVars, prev, rankVars, pt_bs_by_k, pvals, res, ind_F>>
    /\ UNCHANGED <<outVars, ghostVars>>

\* lines 218-229: the two output names, then the result record
WriteResult ==
    /\ pc = "write_result"
    /\ \E output_name \in OutputNames,
          input_name \in InputNames(IF experimental THEN "experimental" ELSE "adj") :
          LET name == Outfname(output_name, input_name) IN
          /\ output_name # <<>> => input_name[3] = "csv"
          /\ run > 1 => name = prev.outfname
          /\ outfname' = name
          /\ outrname' = Outrname(name)
          /\ fs' = WriteFile(fs, name, FileOf("result", <<>>, out_dict))
          /\ written' = Append(written, [name |-> name, kind |-> "result"])
    /\ pc' = "write_ranks"
    /\ UNCHANGED <<run, inputVars, prev, rankVars, stageVars, ghostVars>>

\* lines 231-232: the rank cache record
WriteRanks ==
    /\ pc = "write_ranks"
    /\ fs' = WriteFile(fs, outrname, FileOf("ranks", JsonDump(ranks), NoResult))
    /\ written' = Append(written, [name |-> outrname, kind |-> "ranks"])
    /\ pc' = "done"
    /\ UNCHANGED <<run, inputVars, prev, rankVars, stageVars, outfname, outrname, ghostVars>>

\* after a run that computed its ranks, the script is run again with the same
\* command line and the same input files (so with the same G, adjacency, S and
\* p-values), and with --ranks naming the rank cache record that run wrote
Rerun ==
    /\ pc = "done"
    /\ run < MaxRuns
    /\ ~cache.exists
    /\ run' = run + 1
    /\ prev' = [ranks |-> ranks, outfname |-> outfname, outrname |-> outrname,
                pt_bs_by_k |-> pt_bs_by_k, res |-> res, ind_F |-> ind_F,
                out_dict |-> out_dict]
    /\ pc' = "ranks"
    /\ cache' = NoCache
    /\ ranks' = <<>>
    /\ num_processes' = 1
    /\ node_i' = 1
    /\ ranks_collection' = <<>>
    /\ pt_bs_by_k' = <<>>
    /\ res' = <<>>
    /\ ind_F' = 0
    /\ out_dict' = NoResult
    /\ outfname' = <<>>
    /\ outrname' = <<>>
    /\ written' = <<>>
    /\ calls' = 0
    /\ anyFailed' = FALSE
    /\ started' = {}
    /\ UNCHANGED <<inputVars, pvals, include_not_in_s, fs>>

Next ==
    \/ ReadExperimental
    \/ ReadGraph
    \/ SelectSeeds
    \/ Validate
    \/ LoadOrCompute
    \/ LoopStep
    \/ \E j \in DOMAIN ranks_collection : WorkerRun(j)
    \/ PoolGather
    \/ BuildBitstrings
    \/ Score
    \/ Select
    \/ Report
    \/ WriteResult
    \/ WriteRanks
    \/ Rerun

Spec == Init /\ [][Next]_vars

\* ------------------------------------------------------------ ResultSelector alone
\* result tables as get_encoding_length may return them
BSChoices == {<<1>>, <<1, 1>>, <<1, 0, 0>>}
SizeChoices == {1, 2}
ScoreChoices == {-1, 1}
Rows == [optimalBS : BSChoices, subsetSize : SizeChoices, dscore : ScoreChoices]
Tables == SeqsUpTo(Rows, 0, MaxRows)

InitSel ==
    /\ pc = "select"
    /\ res \in Tables
    /\ run = 1
    /\ experimental = FALSE
    /\ idxType = "str"
    /\ target_patients = 0
    /\ adj_matrix = TRUE
    /\ G = [id \in {Id("str", v) : v \in NodeVals} |-> 0]
    /\ adj = ZeroAdj
    /\ S_perturbed_nodes = <<>>
    /\ cache = NoCache
    /\ ranks = <<>>
    /\ num_processes = 1
    /\ node_i = 1
    /\ ranks_collection = <<>>
    /\ pt_bs_by_k = <<>>
    /\ pvals = NoEvidence
    /\ ind_F = 0
    /\ include_not_in_s = FALSE
    /\ out_dict = NoResult
    /\ outfname = <<>>
    /\ outrname = <<>>
    /\ fs = NoFiles
    /\ written = <<>>
    /\ calls = 0
    /\ anyFailed = FALSE
    /\ started = {"BitstringBuilder", "EncodingScorer"}
    /\ prev = NoPrev

NextSel == Select

SpecSel == InitSel /\ [][NextSel]_vars

\* ------------------------------------------------------------ claims
Wrote(kind) == \E j \in DOMAIN written : written[j].kind = kind

\* C1: whenever the run has exited on a seed that is no key of G, no
\* NodeRanker call was made, no rank cache was loaded and nothing was
\* written: no result record, no rank cache record, no adjacency matrix.
C1_NoOutputOnUnknownSeed ==
    pc = "exited" => (calls = 0 /\ ~cache.exists /\ written = <<>>)

\* rows j and w agree on d.score, bitstring length and subsetSize
Ties(table, j, w) ==
    /\ table[j].dscore = table[w].dscore
    /\ Len(table[j].optimalBS) = Len(table[w].optimalBS)
    /\ table[j].subsetSize = table[w].subsetSize

\* C2: the row the selector returns has the maximal d.score; among the rows
\* with that d.score it has the longest optimalBS; among those the largest
\* subsetSize; and no earlier row of the table has all three.
C2_WinnerIsFirstBest ==
    pc = "report" =>
        /\ ind_F \in DOMAIN res
        /\ \A j \in DOMAIN res :
              /\ res[j].dscore <= res[ind_F].dscore
              /\ res[j].dscore = res[ind_F].dscore =>
                    Len(res[j].optimalBS) <= Len(res[ind_F].optimalBS)
              /\ (/\ res[j].dscore = res[ind_F].dscore
                  /\ Len(res[j].optimalBS) = Len(res[ind_F].optimalBS)) =>
                    res[j].subsetSize <= res[ind_F].subsetSize
              /\ Ties(res, j, ind_F) => ind_F <= j

Ones(bs) == Cardinality({j \in DOMAIN bs : bs[j] = 1})
\* two rows tie on the maximal d.score, the shorter bitstring has more 1-bits,
\* and the longer one won
C2_Witness ==
    /\ pc = "report"
    /\ \E j \in DOMAIN res :
          /\ j < ind_F
          /\ res[j].dscore = res[ind_F].dscore
          /\ Len(res[j].optimalBS) < Len(res[ind_F].optimalBS)
          /\ Ones(res[j].optimalBS) > Ones(res[ind_F].optimalBS)
          /\ res[j].subsetSize > res[ind_F].subsetSize

\* C3: once a rank cache has been loaded, no NodeRanker call is made in the
\* run and the rank map is the content of the cache, entry for entry.
C3_CacheBypassesRanker ==
    cache.exists => (calls = 0 /\ ranks = cache.text)

\* a cache that lacks a seed went to BitstringBuilder as it was
C3_Witness ==
    /\ cache.exists
    /\ pc = "done"
    /\ \E j \in DOMAIN S_perturbed_nodes : S_perturbed_nodes[j] \notin DictKeys(ranks)

\* C4: a re-run on the rank cache of a run that computed its ranks passes the
\* same rank map to BitstringBuilder, gets the same bitstrings, table, winner
\* and result record, and writes the cache it read.
C4_CacheRoundTrip ==
    (run > 1 /\ pc = "done") =>
        /\ ranks = prev.ranks
        /\ pt_bs_by_k = prev.pt_bs_by_k
        /\ res = prev.res
        /\ ind_F = prev.ind_F
        /\ out_dict = prev.out_dict
        /\ fs[outrname].ranks = cache.text

\* C5: the rank map gathered from the pool is the rank map of the sequential
\* loop over the same seed list, whatever the order of completion.
C5_PoolEqualsLoop ==
    (pc = "bitstring" /\ ~cache.exists /\ num_processes # 1) =>
        ranks = SequentialRanks(<<>>, S_perturbed_nodes, G, adj, S_perturbed_nodes)

\* the pool ranked a seed list with a repeated identifier
C5_Witness ==
    /\ pc = "bitstring"
    /\ ~cache.exists
    /\ num_processes # 1
    /\ Len(ranks) < Len(S_perturbed_nodes)
    /\ \E j \in DOMAIN ranks : Len(ranks[j].v) > 1

\* C6: once a NodeRanker call has failed, the run is still in the pool or has
\* crashed; no downstream stage is started and neither the result record nor
\* the rank cache record is written.
C6_FailureFailsRun ==
    anyFailed =>
        /\ pc \in {"pool", "crashed"}
        /\ started = {}
        /\ ~Wrote("result")
        /\ ~Wrote("ranks")

\* the run crashed although another seed's rank list was complete
C6_Witness ==
    /\ anyFailed
    /\ pc = "crashed"
    /\ \/ ranks # <<>>
       \/ \E j \in DOMAIN ranks_collection : ranks_collection[j].st = "done"

\* C7: past seed validation the seed list is non-empty and within G's keys.
C7_SeedsNonEmptyAndKnown ==
    pc \in {"ranks", "loop", "pool", "bitstring"} =>
        (S_perturbed_nodes # <<>> /\ SeedsInGraph(S_perturbed_nodes, G))

\* the positions of an entry that F reports
KeptAt(entry, include) == {j \in DOMAIN entry : include \/ entry[j][2] = 1}

\* C8: F lists, in rank order, the nodes of the winning row's entry whose bit
\* is 1 (every node of the entry with include_not_in_s), and the winning
\* row's bitstring is that entry's.
C8_FIsWinningEntry ==
    pc \in {"write_result", "write_ranks", "done"} =>
        LET entry == pt_bs_by_k[ind_F]
            kept == KeptAt(entry, include_not_in_s)
            F == out_dict.F_most_connected_nodes
        IN  /\ out_dict.optimal_bitstring = BitsOf(entry)
            /\ res[ind_F].optimalBS = BitsOf(entry)
            /\ Len(F) = Cardinality(kept)
            /\ \A j \in kept : F[Cardinality({i \in kept : i <= j})] = entry[j][1]

\* without the option, an entry with a 0 between two 1s was reported
C8_Witness ==
    /\ pc = "done"
    /\ ~include_not_in_s
    /\ Len(pt_bs_by_k[ind_F]) = 3
    /\ BitsOf(pt_bs_by_k[ind_F]) = <<1, 0, 1>>
    /\ Len(out_dict.F_most_connected_nodes) = 2

\* C9: when BitstringBuilder is called, the keys of the rank map are the seeds.
C9_KeysAreSeeds ==
    pc = "bitstring" => DictKeys(ranks) = Range(S_perturbed_nodes)

\* C10: a completed run wrote the result record and then the rank cache
\* record under two names, and both are on disk.
C10_TwoOutputFiles ==
    pc = "done" =>
        /\ outfname # outrname
        /\ fs[outfname].kind = "result"
        /\ fs[outrname].kind = "ranks"
        /\ \E a, b \in DOMAIN written :
              /\ a < b
              /\ written[a] = [name |-> outfname, kind |-> "result"]
              /\ written[b] = [name |-> outrname, kind |-> "ranks"]

====
